---------------------------- MODULE Spec2Model ----------------------------
(***************************************************************************)
(* Model of the Dutch Language Learning API (src/main.py).                 *)
(*                                                                         *)
(* The process imports the module (knowledge-base ingestion gated by the   *)
(* IS_KNOWLEDGE_BASE_LOADED environment variable), then serves GET /ask.   *)
(* A request is bound to the handler's parameters, the handler calls the   *)
(* external orchestrator (editor.run) and renders the structured result    *)
(* as JSON or as plain text.                                               *)
(*                                                                         *)
(* Python strings are sequences of one-character strings, so that join,    *)
(* lower() and the f-string of the vocabulary lines are computed, not      *)
(* assumed.                                                                *)
(***************************************************************************)
EXTENDS Integers, Sequences, FiniteSets, TLC

VARIABLES
    env,        \* os.environ of the process: a set of <<name, value>> pairs
    startEnv,   \* the environment the process was started with
    proc,       \* "starting" | "serving" | "aborted"
    loadCalls,  \* number of calls of knowledge_base.load in this process
    pc,         \* per request: "idle" | "received" | "ran" | "done"
    params,     \* per request: the query-string parameters that were sent
    content,    \* per request: the handler's local variable `content`
    runs,       \* per request: the calls of editor.run made for it
    response    \* per request: the HTTP response

vars == <<env, startEnv, proc, loadCalls, pc, params, content, runs, response>>

---------------------------------------------------------------------------
(* Bounds of the model *)

\* longest sentence / translation list of the mixed-shape results
MaxSent == 2

\* longest vocabulary list
MaxVocab == 2

\* sentence count the schema and the prompts ask for
NumSentences == 5

Requests == {1, 2}

FirstRequest == {1}

---------------------------------------------------------------------------
(* Strings *)

UpperLetters ==
    <<"A", "B", "C", "D", "E", "F", "G", "H", "I", "J", "K", "L", "M",
      "N", "O", "P", "Q", "R", "S", "T", "U", "V", "W", "X", "Y", "Z">>

LowerLetters ==
    <<"a", "b", "c", "d", "e", "f", "g", "h", "i", "j", "k", "l", "m",
      "n", "o", "p", "q", "r", "s", "t", "u", "v", "w", "x", "y", "z">>

\* str.lower() on one character
LowerChar(c) ==
    IF \E i \in DOMAIN UpperLetters : UpperLetters[i] = c
    THEN LowerLetters[CHOOSE i \in DOMAIN UpperLetters : UpperLetters[i] = c]
    ELSE c

\* str.lower()
Lower(s) ==
    [i \in DOMAIN s |-> LowerChar(s[i])]

RECURSIVE JoinTrailingSep(_, _)
\* Join with the separator written after every element, the last included
JoinTrailingSep(sep, list) ==
    IF list = <<>> THEN <<>>
    ELSE list[1] \o sep \o JoinTrailingSep(sep, Tail(list))

RECURSIVE Join(_, _)
\* sep.join(list)
Join(sep, list) ==
    IF list = <<>> THEN <<>>
    ELSE IF Len(list) = 1 THEN list[1]
    ELSE list[1] \o sep \o Join(sep, Tail(list))

HeaderDutch ==
    <<"*", "*", "D", "u", "t", "c", "h", " ", "P", "a", "r", "a", "g", "r",
      "a", "p", "h", " ", "(", "5", " ", "s", "e", "n", "t", "e", "n", "c",
      "e", "s", ")", ":", "*", "*", "\n">>

HeaderEnglish ==
    <<"*", "*", "E", "n", "g", "l", "i", "s", "h", " ", "T", "r", "a", "n",
      "s", "l", "a", "t", "i", "o", "n", ":", "*", "*", "\n">>

HeaderVocabulary ==
    <<"*", "*", "K", "e", "y", " ", "V", "o", "c", "a", "b", "u", "l", "a",
      "r", "y", ":", "*", "*", "\n">>

SentenceSeparator ==
    <<".", " ">>

ParagraphEnd ==
    <<".", "\n", "\n">>

---------------------------------------------------------------------------
(* The environment *)

FlagName == "IS_KNOWLEDGE_BASE_LOADED"

\* os.getenv(name): the set holding the value, empty when the name is unset
Getenv(e, name) ==
    {p[2] : p \in {q \in e : q[1] = name}}

\* os.environ[name] = value
Setenv(e, name, value) ==
    {q \in e : q[1] # name} \cup {<<name, value>>}

\* NeedsLoad testing only whether the flag is unset
NeedsLoadIfUnset(e) ==
    Getenv(e, FlagName) = {}

\* os.getenv("IS_KNOWLEDGE_BASE_LOADED") != "true"
NeedsLoad(e) ==
    Getenv(e, FlagName) # {"true"}

StartEnvs ==
    {{}, {<<FlagName, "true">>}, {<<FlagName, "True">>}}

---------------------------------------------------------------------------
(* Requests and orchestrator results *)

NoValue == [kind |-> "none"]

DefaultFormat == <<"t", "e", "x", "t">>

JsonFormat == <<"j", "s", "o", "n">>

\* the values of the format parameter that are sent
Formats ==
    { <<"j", "s", "o", "n">>, <<"J", "S", "O", "N">>, <<"J", "s", "o", "n">>,
      <<"t", "e", "x", "t">>, <<"T", "E", "X", "T">>, <<"x", "m", "l">>, <<>> }

\* the values of the query parameter that are sent
Queries ==
    { <<>>, <<"k", "a", "t">> }

ParamsOf(Q, F) ==
    {[query |-> q, format |-> f] : q \in Q, f \in F}
        \cup {[query |-> q] : q \in Q}
        \cup {[format |-> f] : f \in F}

DutchPool ==
    { <<"J", "a">>, <<"O", ".", "k">> }

EnglishPool ==
    { <<"Y", "e", "s">>, <<"O", "k">> }

VocabularyPool ==
    { [dutch |-> <<"k", "a", "t">>, english |-> <<"c", "a", "t">>],
      [dutch |-> <<"j", "a">>, english |-> <<"y", "e", "s">>] }

SeqsOfLen(S, n) ==
    [1..n -> S]

SeqsUpTo(S, n) ==
    UNION {SeqsOfLen(S, k) : k \in 0..n}

\* DutchParagraph
Paragraph(s, t, tp, lv, v) ==
    [dutch_sentences |-> s, english_translations |-> t,
     topic |-> tp, level |-> lv, vocabulary |-> v]

\* results of the shape the prompts ask for
FullContents ==
    {Paragraph(s, t, "kat", "beginner",
               <<[dutch |-> <<"k", "a", "t">>, english |-> <<"c", "a", "t">>]>>) :
        s \in SeqsOfLen(DutchPool, NumSentences),
        t \in SeqsOfLen(EnglishPool, NumSentences)}

\* results of any other shape
MixedContents ==
    {Paragraph(st[1], st[2], "voetbal", "advanced", v) :
        st \in SeqsUpTo(DutchPool, MaxSent) \X SeqsUpTo(EnglishPool, MaxSent),
        v \in SeqsUpTo(VocabularyPool, MaxVocab)}

Contents ==
    FullContents \cup MixedContents

---------------------------------------------------------------------------
(* GET /ask *)

\* Bind with query declared optional, defaulting to the empty string
BindOptionalQuery(p) ==
    [ok     |-> TRUE,
     query  |-> IF "query" \in DOMAIN p THEN p.query ELSE <<>>,
     format |-> IF "format" \in DOMAIN p THEN p.format ELSE DefaultFormat]

\* Bind with query declared with a minimum length of one
BindNonEmptyQuery(p) ==
    [ok     |-> "query" \in DOMAIN p /\ p.query # <<>>,
     query  |-> IF "query" \in DOMAIN p THEN p.query ELSE <<>>,
     format |-> IF "format" \in DOMAIN p THEN p.format ELSE DefaultFormat]

\* the parameter declarations of ask
Bind(p) ==
    [ok     |-> "query" \in DOMAIN p,
     query  |-> IF "query" \in DOMAIN p THEN p.query ELSE <<>>,
     format |-> IF "format" \in DOMAIN p THEN p.format ELSE DefaultFormat]

\* IsJson without lower()
IsJsonCaseSensitive(format) ==
    format = JsonFormat

\* IsJson with the branches swapped: everything but "text" is JSON
IsJsonUnlessText(format) ==
    Lower(format) # DefaultFormat

\* format.lower() == "json"
IsJson(format) ==
    Lower(format) = JsonFormat

\* the framework's encoding of the returned model
ToJson(c) ==
    [dutch_sentences      |-> c.dutch_sentences,
     english_translations |-> c.english_translations,
     topic                |-> c.topic,
     level                |-> c.level,
     vocabulary           |->
        [i \in DOMAIN c.vocabulary |->
            [dutch |-> c.vocabulary[i].dutch, english |-> c.vocabulary[i].english]]]

\* f"- {word.dutch}: {word.english}\n"
VocabularyLine(word) ==
    <<"-", " ">> \o word.dutch \o <<":", " ">> \o word.english \o <<"\n">>

RECURSIVE VocabularyLinesButLast(_)
\* VocabularyLines with a loop that stops one entry early
VocabularyLinesButLast(vocabulary) ==
    IF Len(vocabulary) <= 1 THEN <<>>
    ELSE VocabularyLine(Head(vocabulary)) \o VocabularyLinesButLast(Tail(vocabulary))

RECURSIVE VocabularyLines(_)
\* the loop over vocabulary
VocabularyLines(vocabulary) ==
    IF vocabulary = <<>> THEN <<>>
    ELSE VocabularyLine(Head(vocabulary)) \o VocabularyLines(Tail(vocabulary))

\* formatted_text
FormatText(c) ==
    HeaderDutch \o Join(SentenceSeparator, c.dutch_sentences) \o ParagraphEnd
        \o HeaderEnglish \o Join(SentenceSeparator, c.english_translations)
        \o ParagraphEnd
        \o HeaderVocabulary \o VocabularyLines(c.vocabulary)

ValidationError == [status |-> 422, kind |-> "error"]

ServerError == [status |-> 500, kind |-> "error"]

\* AskResponse with a shape check of the result in front
AskResponseValidating(format, c) ==
    IF Len(c.dutch_sentences) # NumSentences
         \/ Len(c.english_translations) # NumSentences
    THEN ServerError
    ELSE IF IsJson(format)
    THEN [status |-> 200, kind |-> "json", body |-> ToJson(c)]
    ELSE [status |-> 200, kind |-> "text", body |-> FormatText(c)]

\* the branch on format and the value the handler returns
AskResponse(format, c) ==
    IF IsJson(format)
    THEN [status |-> 200, kind |-> "json", body |-> ToJson(c)]
    ELSE [status |-> 200, kind |-> "text", body |-> FormatText(c)]

---------------------------------------------------------------------------
(* Process startup *)

\* the module-level block that loads the knowledge base
Startup ==
    /\ proc = "starting"
    /\ IF NeedsLoad(env)
       THEN /\ loadCalls' = loadCalls + 1
            /\ env' = Setenv(env, FlagName, "true")
       ELSE UNCHANGED <<loadCalls, env>>
    /\ proc' = "serving"
    /\ UNCHANGED <<startEnv, pc, params, content, runs, response>>

\* knowledge_base.load raises: the import fails
StartupLoadFails ==
    /\ proc = "starting"
    /\ NeedsLoad(env)
    /\ loadCalls' = loadCalls + 1
    /\ proc' = "aborted"
    /\ UNCHANGED <<env, startEnv, pc, params, content, runs, response>>

---------------------------------------------------------------------------
(* Request handling *)

\* a GET /ask arrives
Receive(r, P) ==
    /\ proc = "serving"
    /\ pc[r] = "idle"
    /\ \E p \in P : params' = [params EXCEPT ![r] = p]
    /\ pc' = [pc EXCEPT ![r] = "received"]
    /\ UNCHANGED <<env, startEnv, proc, loadCalls, content, runs, response>>

\* request validation fails: the handler is not called
RejectInvalid(r) ==
    /\ pc[r] = "received"
    /\ ~Bind(params[r]).ok
    /\ response' = [response EXCEPT ![r] = ValidationError]
    /\ pc' = [pc EXCEPT ![r] = "done"]
    /\ UNCHANGED <<env, startEnv, proc, loadCalls, params, content, runs>>

\* response = editor.run(query); content = response.content
AskRun(r, C) ==
    /\ pc[r] = "received"
    /\ Bind(params[r]).ok
    /\ \E c \in C :
        /\ runs' = [runs EXCEPT ![r] =
                      Append(@, [query |-> Bind(params[r]).query, ok |-> TRUE,
                                 result |-> c])]
        /\ content' = [content EXCEPT ![r] = c]
    /\ pc' = [pc EXCEPT ![r] = "ran"]
    /\ UNCHANGED <<env, startEnv, proc, loadCalls, params, response>>

\* AskRunFails with one retry: the first failure leaves the request pending
AskRunFailsRetry(r) ==
    /\ pc[r] = "received"
    /\ Bind(params[r]).ok
    /\ runs' = [runs EXCEPT ![r] =
                  Append(@, [query |-> Bind(params[r]).query, ok |-> FALSE,
                             result |-> NoValue])]
    /\ IF runs[r] = <<>>
       THEN UNCHANGED <<response, pc>>
       ELSE /\ response' = [response EXCEPT ![r] = ServerError]
            /\ pc' = [pc EXCEPT ![r] = "done"]
    /\ UNCHANGED <<env, startEnv, proc, loadCalls, params, content>>

\* editor.run(query) raises
AskRunFails(r) ==
    /\ pc[r] = "received"
    /\ Bind(params[r]).ok
    /\ runs' = [runs EXCEPT ![r] =
                  Append(@, [query |-> Bind(params[r]).query, ok |-> FALSE,
                             result |-> NoValue])]
    /\ response' = [response EXCEPT ![r] = ServerError]
    /\ pc' = [pc EXCEPT ![r] = "done"]
    /\ UNCHANGED <<env, startEnv, proc, loadCalls, params, content>>

\* AskRespond rendering the most recent result held by any handler
AskRespondShared(r) ==
    /\ pc[r] = "ran"
    /\ \E q \in Requests :
        /\ content[q] # NoValue
        /\ q # r => pc[q] \in {"ran", "done"}
        /\ \A o \in Requests : content[o] # NoValue => o <= q \/ o = r
        /\ response' = [response EXCEPT ![r] =
                          AskResponse(Bind(params[r]).format, content[q])]
    /\ pc' = [pc EXCEPT ![r] = "done"]
    /\ UNCHANGED <<env, startEnv, proc, loadCalls, params, content, runs>>

\* the branch on format and the return
AskRespond(r) ==
    /\ pc[r] = "ran"
    /\ response' = [response EXCEPT ![r] =
                      AskResponse(Bind(params[r]).format, content[r])]
    /\ pc' = [pc EXCEPT ![r] = "done"]
    /\ UNCHANGED <<env, startEnv, proc, loadCalls, params, content, runs>>

---------------------------------------------------------------------------
(* Specifications *)

NoRequests ==
    /\ pc = [r \in Requests |-> "idle"]
    /\ params = [r \in Requests |-> NoValue]
    /\ content = [r \in Requests |-> NoValue]
    /\ runs = [r \in Requests |-> <<>>]
    /\ response = [r \in Requests |-> NoValue]

\* a process at the start of the import, serving concurrent requests
Init ==
    /\ startEnv \in StartEnvs
    /\ env = startEnv
    /\ proc = "starting"
    /\ loadCalls = 0
    /\ NoRequests

\* the requests and results of the concurrent specification
SomeParams ==
    ParamsOf({<<>>, <<"k", "a", "t">>}, {<<"J", "S", "O", "N">>, <<"x", "m", "l">>})

SomeContents ==
    {c \in MixedContents :
        /\ Len(c.dutch_sentences) = 1
        /\ Len(c.english_translations) = 1
        /\ Len(c.vocabulary) = 1
        /\ c.vocabulary[1].dutch = <<"k", "a", "t">>
        /\ c.english_translations[1] = <<"O", "k">>}

Next ==
    \/ Startup
    \/ StartupLoadFails
    \/ \E r \in Requests : Receive(r, SomeParams)
    \/ \E r \in Requests : RejectInvalid(r)
    \/ \E r \in Requests : AskRun(r, SomeContents)
    \/ \E r \in Requests : AskRunFails(r)
    \/ \E r \in Requests : AskRespond(r)

Spec == Init /\ [][Next]_vars

\* a serving process started with the flag set, handling one request
InitAsk ==
    /\ startEnv = {<<FlagName, "true">>}
    /\ env = startEnv
    /\ proc = "serving"
    /\ loadCalls = 0
    /\ NoRequests

NextAsk ==
    \/ \E r \in FirstRequest : Receive(r, ParamsOf(Queries, Formats))
    \/ \E r \in FirstRequest : RejectInvalid(r)
    \/ \E r \in FirstRequest : AskRun(r, Contents)
    \/ \E r \in FirstRequest : AskRunFails(r)
    \/ \E r \in FirstRequest : AskRespond(r)

SpecAsk == InitAsk /\ [][NextAsk]_vars

TypeOK ==
    /\ proc \in {"starting", "serving", "aborted"}
    /\ loadCalls \in 0..1
    /\ \A r \in Requests : pc[r] \in {"idle", "received", "ran", "done"}

---------------------------------------------------------------------------
(* What the properties speak of *)

\* every spelling of "json" in upper and lower case letters
JsonSpellings ==
    {<<a, b, c, d>> : a \in {"j", "J"}, b \in {"s", "S"},
                      c \in {"o", "O"}, d \in {"n", "N"}}

JsonRequested(r) ==
    "format" \in DOMAIN params[r] /\ params[r].format \in JsonSpellings

TextRequested(r) ==
    "format" \notin DOMAIN params[r] \/ params[r].format \notin JsonSpellings

QueryMissing(r) ==
    pc[r] # "idle" /\ "query" \notin DOMAIN params[r]

QueryEmpty(r) ==
    pc[r] # "idle" /\ "query" \in DOMAIN params[r] /\ params[r].query = <<>>

\* the request is answered and its orchestrator call returned a result
Succeeded(r) ==
    pc[r] = "done" /\ runs[r] # <<>> /\ runs[r][Len(runs[r])].ok

\* the request is answered and its orchestrator call raised
Failed(r) ==
    runs[r] # <<>> /\ ~runs[r][Len(runs[r])].ok

\* what the orchestrator returned for the request
Result(r) ==
    runs[r][Len(runs[r])].result

FirstNewline(s) ==
    IF \E i \in DOMAIN s : s[i] = "\n"
    THEN CHOOSE i \in DOMAIN s : s[i] = "\n" /\ \A j \in 1..(i - 1) : s[j] # "\n"
    ELSE Len(s) + 1

RECURSIVE LinesOf(_)
\* the lines of a text, without their line ends
LinesOf(s) ==
    IF s = <<>> THEN <<>>
    ELSE <<SubSeq(s, 1, FirstNewline(s) - 1)>>
            \o LinesOf(SubSeq(s, FirstNewline(s) + 1, Len(s)))

RECURSIVE Offset(_, _)
\* where element i of a joined list starts: the characters in front of it
Offset(list, i) ==
    IF i = 1 THEN 0 ELSE Offset(list, i - 1) + Len(list[i - 1]) + 2

\* line holds the elements of list in order, ". " between neighbours and
\* one "." behind the last
IsParagraphOf(line, list) ==
    /\ Len(line) = IF list = <<>> THEN 1 ELSE Offset(list, Len(list) + 1) - 1
    /\ line[Len(line)] = "."
    /\ \A i \in DOMAIN list :
        SubSeq(line, Offset(list, i) + 1, Offset(list, i) + Len(list[i])) = list[i]
    /\ \A i \in 1..(Len(list) - 1) :
        /\ line[Offset(list, i + 1) - 1] = "."
        /\ line[Offset(list, i + 1)] = " "

JsonFields ==
    {"dutch_sentences", "english_translations", "topic", "level", "vocabulary"}

---------------------------------------------------------------------------
(* Properties *)

\* C1: for a result with 5 sentences and 5 translations, the text response
\* holds, as its paragraph lines, the sentences in order joined with ". "
\* and ended by one ".", and the translations rendered the same way.
C1_TextJoinsFiveSentences ==
    \A r \in Requests :
        (/\ Succeeded(r) /\ TextRequested(r)
         /\ Len(Result(r).dutch_sentences) = 5
         /\ Len(Result(r).english_translations) = 5)
        => /\ response[r].kind = "text"
           /\ LET L == LinesOf(response[r].body)
                  s == Result(r).dutch_sentences
                  e == Result(r).english_translations
                  sep == <<".", " ">>
              IN /\ L[2] = s[1] \o sep \o s[2] \o sep \o s[3] \o sep \o s[4]
                              \o sep \o s[5] \o <<".">>
                 /\ L[5] = e[1] \o sep \o e[2] \o sep \o e[3] \o sep \o e[4]
                              \o sep \o e[5] \o <<".">>

C1_Witness ==
    \E r \in Requests :
        /\ Succeeded(r) /\ TextRequested(r)
        /\ response[r].kind = "text"
        /\ Len(Result(r).dutch_sentences) = 5
        /\ Len(Result(r).english_translations) = 5
        /\ Result(r).dutch_sentences[1] # Result(r).dutch_sentences[2]
        /\ Result(r).english_translations[4] # Result(r).english_translations[5]

\* C2 as stated: the text response has one line per vocabulary entry, in
\* order, and each line is exactly "<dutch>: <english>".
C2_VocabularyLinesAsStated ==
    \A r \in Requests :
        (Succeeded(r) /\ TextRequested(r))
        => /\ response[r].kind = "text"
           /\ LET L == LinesOf(response[r].body)
                  v == Result(r).vocabulary
              IN /\ Len(L) = 7 + Len(v)
                 /\ \A i \in DOMAIN v :
                        L[7 + i] = v[i].dutch \o <<":", " ">> \o v[i].english

\* C2 amended: the text response has one line per vocabulary entry, in
\* order, and each line is exactly "- <dutch>: <english>".
C2_VocabularyLines ==
    \A r \in Requests :
        (Succeeded(r) /\ TextRequested(r))
        => /\ response[r].kind = "text"
           /\ LET L == LinesOf(response[r].body)
                  v == Result(r).vocabulary
              IN /\ Len(L) = 7 + Len(v)
                 /\ L[7] = SubSeq(HeaderVocabulary, 1, Len(HeaderVocabulary) - 1)
                 /\ \A i \in DOMAIN v :
                        L[7 + i] = <<"-", " ">> \o v[i].dutch \o <<":", " ">>
                                       \o v[i].english

C2_Witness ==
    \E r \in Requests :
        /\ Succeeded(r) /\ TextRequested(r)
        /\ response[r].kind = "text"
        /\ Len(Result(r).vocabulary) = 2
        /\ Result(r).vocabulary[1] # Result(r).vocabulary[2]

\* C3: a request whose format is "json" in any letter case is answered with
\* the structured object the orchestrator returned: the same five fields
\* with the same values, and no text.
C3_JsonReturnsResult ==
    \A r \in Requests :
        (Succeeded(r) /\ JsonRequested(r))
        => /\ response[r].status = 200
           /\ response[r].kind = "json"
           /\ DOMAIN response[r].body = JsonFields
           /\ \A f \in JsonFields : response[r].body[f] = Result(r)[f]

C3_Witness ==
    \E r \in Requests :
        /\ Succeeded(r) /\ JsonRequested(r)
        /\ params[r].format = <<"J", "s", "o", "n">>
        /\ response[r].kind = "json"
        /\ Len(Result(r).vocabulary) = 2
        /\ Len(Result(r).dutch_sentences) = 2

\* C4: a request whose format is omitted or is anything but a spelling of
\* "json" is answered with the text rendering of the result, and it is never
\* rejected by validation unless its query is missing.
C4_OtherFormatsRenderText ==
    \A r \in Requests :
        (pc[r] = "done" /\ TextRequested(r))
        => /\ Succeeded(r) =>
                response[r] = [status |-> 200, kind |-> "text",
                               body |-> FormatText(Result(r))]
           /\ response[r] = ValidationError => QueryMissing(r)
           /\ ~QueryMissing(r) => runs[r] # <<>>

C4_Witness ==
    \E r \in Requests :
        /\ Succeeded(r)
        /\ params[r] = [query |-> <<"k", "a", "t">>, format |-> <<"x", "m", "l">>]
        /\ response[r].kind = "text"

\* C5: a request without the query parameter is answered with a client
\* error, and the orchestrator is never called for it.
C5_MissingQueryRejected ==
    \A r \in Requests :
        QueryMissing(r)
        => /\ runs[r] = <<>>
           /\ content[r] = NoValue
           /\ pc[r] \in {"received", "done"}
           /\ pc[r] = "done" =>
                /\ response[r].kind = "error"
                /\ response[r].status \in 400..499

C5_Witness ==
    \E r \in Requests : QueryMissing(r) /\ pc[r] = "done"

\* C6 as stated: a request whose query is present but empty is rejected like
\* a missing one: no orchestrator call, no formatted response.
C6_EmptyQueryRejectedAsStated ==
    \A r \in Requests :
        QueryEmpty(r)
        => /\ runs[r] = <<>>
           /\ pc[r] = "done" => response[r].kind = "error"

\* C6 amended: a request whose query is present but empty passes validation:
\* it is never answered with the client error of a missing query, the
\* orchestrator is called once with the empty string, and the answer is the
\* rendering of the result or the server error of a failed call.
C6_EmptyQueryAccepted ==
    \A r \in Requests :
        (QueryEmpty(r) /\ pc[r] = "done")
        => /\ response[r] # ValidationError
           /\ Len(runs[r]) = 1
           /\ runs[r][1].query = <<>>
           /\ IF runs[r][1].ok
              THEN response[r].status = 200 /\ response[r].kind \in {"text", "json"}
              ELSE response[r] = ServerError

C6_Witness ==
    \E r \in Requests :
        QueryEmpty(r) /\ Succeeded(r) /\ response[r].kind = "text"

\* C7: when the orchestrator call of a request fails, it was the only call
\* made for the request, nothing was formatted, and the answer is a server
\* error; no request has the orchestrator called more than once.
C7_FailurePropagates ==
    \A r \in Requests :
        /\ Len(runs[r]) <= 1
        /\ Failed(r)
           => /\ Len(runs[r]) = 1
              /\ pc[r] = "done"
              /\ content[r] = NoValue
              /\ response[r].kind = "error"
              /\ response[r].status \in 500..599

C7_Witness ==
    \E r \in Requests : Failed(r) /\ pc[r] = "done"

C8_StartupState ==
    /\ loadCalls <= 1
    /\ proc = "starting" => loadCalls = 0
    /\ proc # "starting" =>
          loadCalls = IF Getenv(startEnv, FlagName) = {"true"} THEN 0 ELSE 1
    /\ proc = "serving" => Getenv(env, FlagName) = {"true"}
    /\ \A r \in Requests : pc[r] # "idle" => proc = "serving"

\* C8: ingestion runs at startup unless the flag is "true" (it runs when the
\* flag is unset), at most once per process and before any request is
\* handled; a process that serves has the flag equal to "true", and the flag
\* stays "true" in every later state.
C8_IngestionOnceAtStartup ==
    /\ []C8_StartupState
    /\ [][/\ Getenv(env, FlagName) = {"true"} => Getenv(env', FlagName) = {"true"}
          /\ proc # "starting" => loadCalls' = loadCalls]_vars

C8_Witness ==
    /\ startEnv = {}
    /\ proc = "serving"
    /\ loadCalls = 1
    /\ \E r \in Requests : pc[r] = "done"

C9_OwnResultOnly ==
    \A r \in Requests :
        /\ \A i \in DOMAIN runs[r] : runs[r][i].query = Bind(params[r]).query
        /\ content[r] # NoValue => runs[r] # <<>> /\ content[r] = Result(r)
        /\ Succeeded(r) =>
              response[r] = AskResponse(Bind(params[r]).format, Result(r))

C9_StepTouchesOneRequest ==
    \A r \in Requests :
        pc'[r] = pc[r]
        => /\ params'[r] = params[r]
           /\ content'[r] = content[r]
           /\ runs'[r] = runs[r]
           /\ response'[r] = response[r]

\* C9: under every interleaving, a request's answer is the rendering of the
\* result the orchestrator returned for that request's own query and of its
\* own format; a step of one request leaves every other request's state
\* alone.
C9_RequestsIsolated ==
    []C9_OwnResultOnly /\ [][C9_StepTouchesOneRequest]_vars

C9_Witness ==
    /\ \A r \in Requests : Succeeded(r)
    /\ \E r, q \in Requests :
        /\ Result(r) # Result(q)
        /\ response[r].kind = "text"
        /\ response[q].kind = "json"

\* C10: a result whose sentence or translation count is not 5 (the empty
\* list included) is rendered all the same: the answer is never an error,
\* JSON carries the lists as returned, and in text a list of n elements
\* gives its elements in order with n-1 separators ". " and one final ".".
C10_NoShapeValidation ==
    \A r \in Requests :
        (/\ Succeeded(r)
         /\ \/ Len(Result(r).dutch_sentences) # 5
            \/ Len(Result(r).english_translations) # 5)
        => /\ response[r].status = 200
           /\ JsonRequested(r) =>
                /\ response[r].kind = "json"
                /\ response[r].body.dutch_sentences = Result(r).dutch_sentences
                /\ response[r].body.english_translations
                       = Result(r).english_translations
           /\ TextRequested(r) =>
                /\ response[r].kind = "text"
                /\ IsParagraphOf(LinesOf(response[r].body)[2],
                                 Result(r).dutch_sentences)
                /\ IsParagraphOf(LinesOf(response[r].body)[5],
                                 Result(r).english_translations)

C10_Witness ==
    \E r \in Requests :
        /\ Succeeded(r) /\ TextRequested(r)
        /\ response[r].kind = "text"
        /\ Len(Result(r).dutch_sentences) = 2
        /\ Len(Result(r).english_translations) = 1
        /\ Result(r).dutch_sentences[1] # Result(r).dutch_sentences[2]

=============================================================================
